---- MODULE Spec2Model ----
(***************************************************************************)
(* The local PDF indexing and retrieval engine of rag_core/pdf_indexer.py: *)
(* a documents directory, the four-artifact index bundle on disk, one      *)
(* PDFKnowledgeBase instance (ensure_index, _needs_rebuild,                *)
(* PDFIndexer.build, _load_index, close, search, rerank, answer) and a     *)
(* second process that loads the same index directory.                     *)
(***************************************************************************)
EXTENDS Integers, Sequences, FiniteSets, TLC

\* ------------------------------------------------------------------ bounds
\* Largest byte size of a PDF.  A PDF of size s carries s - 1 chunks of
\* extractable text: a PDF of size 1 is image-only and yields no chunk.
MaxSize == 2
\* Largest modification time of a PDF.
MaxMtime == 1
\* Largest k, final_m and top_m a caller passes.
MaxK == 3
\* Largest score the embedding model or the re-ranker gives.
MaxScore == 1

\* How many times the environment acts: writes to the two directories, process
\* restarts and interrupted builds together.
MaxEnv == 3

\* Longest text handed to chunk_text, largest chunk_size and largest overlap.
MaxText == 4
MaxChunkSize == 3
MaxOverlap == 2
\* The cut rule of chunk_text is looked at with one chunk_size wide enough for
\* two separators to lie in the part of the window that is searched, on texts
\* whose last MaxTail characters are free.
CutChunkSize == 16
MaxTail == 5
\* A hosted response carries at most MaxAnnotations annotations.
MaxAnnotations == 3
\* The voice agent: the clock runs to MaxTime and the remote participant
\* leaves the room at most MaxDisconnects times; the two environment
\* settings LIVEKIT_AGENT_REJOIN_GRACE_SECONDS and
\* LIVEKIT_AGENT_REJOIN_GREETING_COOLDOWN are 0 or the value named here.
MaxTime == 4
MaxDisconnects == 2
RejoinGrace == 2
RejoinCooldown == 1

\* Most pages of a PDF handed to the extractor on its own, and most chunks of
\* one page.
MaxPages == 2
MaxPageChunks == 2

\* --------------------------------------------------------- program constants
DefaultChunkSize == 900
DefaultOverlap == 150
\* OpenAIRetriever(default_top_k=6)
DefaultTopK == 6

\* ------------------------------------------------------------------- values
\* A directory entry of documents_dir: no such file, a symbolic link to a.pdf
\* (only b.pdf is ever one), or a regular file with its stat().
AbsentF == [kind |-> "absent"]
LinkF == [kind |-> "link"]
Files == [kind : {"file"}, size : 1..MaxSize, mtime_ns : 0..MaxMtime]
Names == {"a.pdf", "b.pdf"}

\* An artifact of index_dir: no such file, bytes that do not parse (a file cut
\* short), valid JSON that is not an object, or what build wrote.
NoArt == [kind |-> "absent"]
GarbledArt == [kind |-> "garbled"]
NonObjectArt == [kind |-> "nonobject"]
Artifacts == {"index.faiss", "meta.jsonl", "config.json", "manifest.json"}

DefaultConfig ==
  [embedding_model |-> "e5-base", chunk_size |-> DefaultChunkSize, overlap |-> DefaultOverlap]
\* The default configuration and one that differs from it in each single key.
Configs ==
  { DefaultConfig,
    [DefaultConfig EXCEPT !.embedding_model = "minilm"],
    [DefaultConfig EXCEPT !.chunk_size = 500],
    [DefaultConfig EXCEPT !.overlap = 100] }

\* ---------------------------------------------------------- sequence helpers
Range(s) == {s[i] : i \in 1..Len(s)}
Min2(x, y) == IF x <= y THEN x ELSE y
Max2(x, y) == IF x >= y THEN x ELSE y

RECURSIVE Flatten(_)
Flatten(ss) == IF ss = <<>> THEN <<>> ELSE Head(ss) \o Flatten(Tail(ss))

VARIABLES
  docs,       \* documents_dir: name -> AbsentF, LinkF or a file's stat
  art,        \* index_dir: artifact name -> its content
  env,        \* how many times the environment has acted
  cfg,        \* self.indexer.{embed_model, chunk_size, overlap}
  pc,         \* where the knowledge base's ensure_index call stands
  pdf_files,  \* ensure_index's sorted glob result; build's pdf_paths
  all_chunks, \* build's extracted chunks
  kb,         \* self._index, self._metas, self._cfg, self._model
  call,       \* what the running ensure_index call has seen and done
  out,        \* what the operation that just finished returned
  rpc,        \* where the second process's load stands
  rd,         \* what the second process has read so far
  fn,         \* the frame of a chunk_text or extraction call made on its own
  agent,      \* the voice agent's entrypoint: its locals, its tasks, its room
  tool        \* one call of the search_document_corpus tool and its status task

vars == <<docs, art, env, cfg, pc, pdf_files, all_chunks, kb, call, out, rpc, rd, fn,
          agent, tool>>

readerVars == <<rpc, rd>>
voiceVars == <<agent, tool>>

\* ------------------------------------------------------------- file system
\* Path.resolve(): b.pdf resolves to a.pdf when it is a symbolic link.
Resolve(d, p) == IF d[p] = LinkF THEN "a.pdf" ELSE p
\* Path.stat() follows symbolic links.
Stat(d, p) == d[Resolve(d, p)]
\* Path.is_file() follows symbolic links.
IsFile(d, p) == Stat(d, p) \in Files
\* sorted(self.documents_dir.glob("*.pdf"))
Glob(d) ==
  (IF d["a.pdf"] # AbsentF THEN <<"a.pdf">> ELSE <<>>)
    \o (IF d["b.pdf"] # AbsentF THEN <<"b.pdf">> ELSE <<>>)

NoIndex == [kind |-> "none"]
EmptyCfg == [kind |-> "empty"]
NoModel == "None"
\* PDFKnowledgeBase.__init__ and close(): nothing loaded.
Unloaded == [index |-> NoIndex, metas |-> <<>>, cfg |-> EmptyCfg, model |-> NoModel]
NoCall == [after_ok |-> FALSE, changed |-> FALSE, dirty |-> FALSE, built |-> FALSE]
NoOut == [op |-> "none"]
NoFn == [op |-> "none"]

\* A documents directory holding a.pdf, and b.pdf as nothing, a second PDF or a
\* symbolic link to a.pdf; an empty index directory; a knowledge base
\* constructed with the default arguments.
FirstPdf == [kind |-> "file", size |-> MaxSize, mtime_ns |-> 0]
InitKb ==
  /\ docs \in {[n \in Names |-> IF n = "a.pdf" THEN FirstPdf ELSE b] :
                 b \in {AbsentF, FirstPdf, LinkF}}
  /\ art = [n \in Artifacts |-> NoArt]
  /\ env = 0
  /\ cfg = DefaultConfig
  /\ pc = "idle"
  /\ pdf_files = <<>>
  /\ all_chunks = <<>>
  /\ kb = Unloaded
  /\ call = NoCall
  /\ out = NoOut
  /\ rpc = "idle"
  /\ rd = Unloaded

\* No voice agent runs beside the knowledge base.
NoAgent == [pc |-> "none"]
NoTool == [pc |-> "none"]
NoVoice == agent = NoAgent /\ tool = NoTool

Init == InitKb /\ fn = NoFn /\ NoVoice

\* ------------------------------------------------------------ PDFIndexer
\* A page of a PDF as the extractor meets it: extract_text raises, the page is
\* blank (image-only), or it has text that chunk_text cuts into some chunks, of
\* which at most one (undetected, 0 for none) makes langdetect raise.
RaisesPage == [kind |-> "raises"]
BlankPage == [kind |-> "blank"]
TextPages ==
  UNION {[kind : {"text"}, chunks : {n}, undetected : 0..n] : n \in 1..MaxPageChunks}
Pages == {RaisesPage, BlankPage} \cup TextPages

\* The pages of a PDF of the documents directory: a PDF of size 1 is one blank
\* page, a larger one has size - 1 pages of one chunk each.
PagesOf(f) ==
  IF f.size = 1 THEN <<BlankPage>>
  ELSE [i \in 1..(f.size - 1) |-> [kind |-> "text", chunks |-> 1, undetected |-> 0]]

\* The chunks extract_pdf_chunks appends for page i (counted from 1).  The text
\* of a chunk is named by the file it was read from, that file's content, its
\* place and the chunking parameters.
PageChunks(pages, i, id, source, c) ==
  IF pages[i].kind # "text" THEN <<>>
  ELSE [j \in 1..pages[i].chunks |->
          [text |-> [doc |-> id.doc, size |-> id.size, pos |-> <<i, j>>,
                     chunk_size |-> c.chunk_size, overlap |-> c.overlap],
           source |-> source, page |-> i,
           lang |-> IF pages[i].undetected = j THEN "unknown" ELSE "en"]]

\* extract_pdf_chunks over the pages of one PDF.
ExtractPagesUntilFailure(pages, id, source, c) ==
  Flatten([i \in 1..Len(pages) |->
             IF \E j \in 1..i : pages[j].kind = "raises" THEN <<>>
             ELSE PageChunks(pages, i, id, source, c)])

ExtractPages(pages, id, source, c) ==
  Flatten([i \in 1..Len(pages) |-> PageChunks(pages, i, id, source, c)])

\* extract_pdf_chunks(pdf_path, chunk_size, overlap): symbolic links are
\* followed to the file; source is the name of the path given.
ExtractPdfChunks(d, p, c) ==
  ExtractPages(PagesOf(Stat(d, p)), [doc |-> Resolve(d, p), size |-> Stat(d, p).size], p, c)

\* build, extraction loop: all chunks of all PDFs, in input-file order.
ExtractAll(d, paths, c) ==
  Flatten([i \in 1..Len(paths) |-> ExtractPdfChunks(d, paths[i], c)])

\* model.encode + index.add: vector i is the embedding of chunk i's text.
Encode(chunks, c) ==
  [i \in 1..Len(chunks) |-> [text |-> chunks[i].text, model |-> c.embedding_model]]

\* The records build writes to meta.jsonl, one per chunk.
MetaRecords(chunks) ==
  [i \in 1..Len(chunks) |->
     [text |-> chunks[i].text, source |-> chunks[i].source, page |-> chunks[i].page,
      lang |-> chunks[i].lang]]

ConfigJson(c) ==
  [kind |-> "config", embedding_model |-> c.embedding_model,
   chunk_size |-> c.chunk_size, overlap |-> c.overlap]

\* PDFIndexer._build_manifest (created_at is never compared and is left out).
BuildManifest(d, c, paths) ==
  [kind |-> "manifest", embedding_model |-> c.embedding_model,
   chunk_size |-> c.chunk_size, overlap |-> c.overlap,
   pdfs |-> [i \in 1..Len(paths) |->
               [path |-> Resolve(d, paths[i]), size |-> Stat(d, paths[i]).size,
                mtime_ns |-> Stat(d, paths[i]).mtime_ns]]]

\* {entry["path"]: entry for entry in stored_manifest.get("pdfs", [])}: a dict,
\* so of two entries with one path the later one stays.
StoredPdfs(m) ==
  [x \in {m.pdfs[i].path : i \in 1..Len(m.pdfs)} |->
     LET last == CHOOSE i \in 1..Len(m.pdfs) :
                   /\ m.pdfs[i].path = x
                   /\ \A j \in 1..Len(m.pdfs) : m.pdfs[j].path = x => j <= i
     IN m.pdfs[last]]

\* entry.get("size") != stat.st_size or entry.get("mtime_ns") != stat.st_mtime_ns
EntryStaleSizeOnly(entry, st) == entry.size # st.size
EntryStale(entry, st) == entry.size # st.size \/ entry.mtime_ns # st.mtime_ns

\* PDFKnowledgeBase._needs_rebuild: "True", "False", or the exception it raises.
NeedsRebuild(d, a, c, files) ==
  IF \E n \in Artifacts : a[n] = NoArt THEN "True"
  ELSE IF a["manifest.json"] = GarbledArt THEN "True"
  ELSE IF a["manifest.json"] = NonObjectArt THEN "AttributeError"
  ELSE
    LET stored == a["manifest.json"]
        current == BuildManifest(d, c, files)
        stored_pdfs == StoredPdfs(stored)
    IN IF \/ stored.embedding_model # current.embedding_model
          \/ stored.chunk_size # current.chunk_size
          \/ stored.overlap # current.overlap
       THEN "True"
       ELSE IF \E i \in 1..Len(files) :
                 \/ Resolve(d, files[i]) \notin DOMAIN stored_pdfs
                 \/ EntryStale(stored_pdfs[Resolve(d, files[i])], Stat(d, files[i]))
       THEN "True"
       ELSE IF Cardinality(DOMAIN stored_pdfs) # Len(files) THEN "True"
       ELSE "False"

\* --------------------------------------------------------------- loading
\* PDFKnowledgeBase._load_index: the fields it leaves behind and the exception
\* it raised, if any.  Each read that fails leaves the later fields as they were.
LoadIndex(k, a) ==
  IF k.index # NoIndex /\ k.model # NoModel THEN [kb |-> k, error |-> "none"]
  ELSE IF a["index.faiss"].kind # "index" THEN [kb |-> k, error |-> "read_index"]
  ELSE LET k1 == [k EXCEPT !.index = a["index.faiss"], !.metas = <<>>]
       IN IF a["meta.jsonl"].kind # "meta" THEN [kb |-> k1, error |-> "meta.jsonl"]
          ELSE LET k2 == [k1 EXCEPT !.metas = a["meta.jsonl"].records]
               IN IF a["config.json"].kind # "config"
                  THEN [kb |-> k2, error |-> "config.json"]
                  ELSE [kb |-> [k2 EXCEPT !.cfg = a["config.json"],
                                          !.model = a["config.json"].embedding_model],
                        error |-> "none"]

\* ------------------------------------------------------------ environment
\* Whatever else happens to the two directories.  A change made while
\* ensure_index is running marks that call; the last result is forgotten.
Touched == IF pc = "idle" THEN call ELSE [call EXCEPT !.dirty = TRUE]
Act == env < MaxEnv /\ env' = env + 1
KbUnchanged == UNCHANGED <<cfg, pc, pdf_files, all_chunks, kb>>

\* A PDF is written: a new file, or new content and/or a new mtime.
WritePdf(p, f) ==
  /\ Act
  /\ docs[p] # LinkF
  /\ docs[p] # f
  /\ docs' = [docs EXCEPT ![p] = f]
  /\ call' = Touched /\ out' = NoOut
  /\ KbUnchanged /\ UNCHANGED <<art, readerVars, fn, voiceVars>>

RemovePdf(p) ==
  /\ Act
  /\ docs[p] # AbsentF
  /\ p = "a.pdf" => docs["b.pdf"] # LinkF
  /\ docs' = [docs EXCEPT ![p] = AbsentF]
  /\ call' = Touched /\ out' = NoOut
  /\ KbUnchanged /\ UNCHANGED <<art, readerVars, fn, voiceVars>>

\* ln -s a.pdf b.pdf
LinkPdf ==
  /\ Act
  /\ docs["a.pdf"] \in Files
  /\ docs["b.pdf"] = AbsentF
  /\ docs' = [docs EXCEPT !["b.pdf"] = LinkF]
  /\ call' = Touched /\ out' = NoOut
  /\ KbUnchanged /\ UNCHANGED <<art, readerVars, fn, voiceVars>>

DeleteArtifact(n) ==
  /\ Act
  /\ art[n] # NoArt
  /\ art' = [art EXCEPT ![n] = NoArt]
  /\ call' = Touched /\ out' = NoOut
  /\ KbUnchanged /\ UNCHANGED <<docs, readerVars, fn, voiceVars>>

\* manifest.json is overwritten by something that is no manifest.
CorruptManifest(v) ==
  /\ Act
  /\ art["manifest.json"].kind = "manifest"
  /\ art' = [art EXCEPT !["manifest.json"] = v]
  /\ call' = Touched /\ out' = NoOut
  /\ KbUnchanged /\ UNCHANGED <<docs, readerVars, fn, voiceVars>>

\* ----------------------------------------------------- PDFKnowledgeBase
\* The stored manifest has an entry for a current PDF whose size or mtime_ns is
\* not the PDF's: the PDF was edited after the bundle was built.
FingerprintChanged(d, a) ==
  /\ \A n \in Artifacts : a[n] # NoArt
  /\ a["manifest.json"].kind = "manifest"
  /\ \E p \in Range(Glob(d)) : \E i \in 1..Len(a["manifest.json"].pdfs) :
       LET e == a["manifest.json"].pdfs[i]
       IN /\ e.path = Resolve(d, p)
          /\ e.size # Stat(d, p).size \/ e.mtime_ns # Stat(d, p).mtime_ns

Raise(op, e) == [op |-> op, result |-> "raise", error |-> e]

\* An exception out of answer or rerank: its class, which is all an except
\* clause of the caller can select on, and the condition that raised it.
RaiseBecause(op, e, cause) ==
  [op |-> op, result |-> "raise", error |-> e, cause |-> cause]

\* raise RuntimeError("Index not loaded. Call ensure_index() first.")
IndexNotLoadedError == "RuntimeError"
\* raise RuntimeError("sentence-transformers CrossEncoder not available. ...")
RerankerUnavailableError == "RuntimeError"
\* raise RuntimeError("OPENAI_API_KEY not configured.")
NotConfiguredError == "RuntimeError"
\* raise FileNotFoundError(f"No PDFs found in '{self.docs_dir}'.")
EmptyCorpusError == "FileNotFoundError"

\* A new process constructs PDFKnowledgeBase with configuration c.
Restart(c) ==
  /\ Act
  /\ pc = "idle"
  /\ cfg' = c
  /\ kb' = Unloaded
  /\ out' = NoOut
  /\ UNCHANGED <<docs, art, pc, pdf_files, all_chunks, call, readerVars, fn, voiceVars>>

\* close()
Close ==
  /\ pc = "idle"
  /\ kb # Unloaded
  /\ kb' = Unloaded
  /\ out' = NoOut
  /\ UNCHANGED <<docs, art, env, cfg, pc, pdf_files, all_chunks, call, readerVars, fn, voiceVars>>

\* if not pdf_files
NoPdfsNever(files) == FALSE
NoPdfs(files) == files = <<>>

\* ensure_index up to the decision of _needs_rebuild.
EnsureIndexBegin ==
  /\ pc = "idle"
  /\ LET files == Glob(docs)
         nr == NeedsRebuild(docs, art, cfg, files)
         after == /\ out.op = "ensure_index"
                  /\ out.result = "ok"
                  /\ out.quiet
     IN IF NoPdfs(files)
        THEN /\ out' = Raise("ensure_index", EmptyCorpusError)
             /\ UNCHANGED <<pc, pdf_files, call>>
        ELSE IF nr \notin {"True", "False"}
        THEN /\ out' = Raise("ensure_index", nr)
             /\ UNCHANGED <<pc, pdf_files, call>>
        ELSE /\ pc' = IF nr = "True" THEN "extract" ELSE "load"
             /\ pdf_files' = files
             /\ call' = [after_ok |-> after, changed |-> FingerprintChanged(docs, art),
                          dirty |-> FALSE, built |-> nr = "True"]
             /\ out' = NoOut
  /\ UNCHANGED <<docs, art, env, cfg, all_chunks, kb, readerVars, fn, voiceVars>>

\* An exception leaves build and ensure_index.
AbortWith(raised) ==
  /\ pc' = "idle"
  /\ pdf_files' = <<>>
  /\ all_chunks' = <<>>
  /\ call' = NoCall
  /\ out' = raised

Abort(e) == AbortWith(Raise("ensure_index", e))

\* if not pdf_paths
NoPaths(paths) == paths = <<>>
\* if not all_chunks
NoChunksNever(chunks) == FALSE
NoChunks(chunks) == chunks = <<>>

\* build up to the embedding: the is_file filter and the extraction loop.
BuildExtract ==
  /\ pc = "extract"
  /\ LET paths == SelectSeq(pdf_files, LAMBDA p : IsFile(docs, p))
         chunks == ExtractAll(docs, paths, cfg)
     IN IF NoPaths(paths) THEN Abort("ValueError")
        ELSE IF NoChunks(chunks) THEN Abort("RuntimeError")
        ELSE /\ pc' = "index.faiss"
             /\ pdf_files' = paths
             /\ all_chunks' = chunks
             /\ UNCHANGED <<call, out>>
  /\ UNCHANGED <<docs, art, env, cfg, kb, readerVars, fn, voiceVars>>

\* faiss.write_index(index, out_dir / "index.faiss")
BuildWriteIndex ==
  /\ pc = "index.faiss"
  /\ art' = [art EXCEPT !["index.faiss"] =
               [kind |-> "index", vectors |-> Encode(all_chunks, cfg)]]
  /\ pc' = "meta.jsonl"
  /\ UNCHANGED <<docs, env, cfg, pdf_files, all_chunks, kb, call, out, readerVars, fn, voiceVars>>

BuildWriteMeta ==
  /\ pc = "meta.jsonl"
  /\ art' = [art EXCEPT !["meta.jsonl"] =
               [kind |-> "meta", records |-> MetaRecords(all_chunks)]]
  /\ pc' = "config.json"
  /\ UNCHANGED <<docs, env, cfg, pdf_files, all_chunks, kb, call, out, readerVars, fn, voiceVars>>

BuildWriteConfig ==
  /\ pc = "config.json"
  /\ art' = [art EXCEPT !["config.json"] = ConfigJson(cfg)]
  /\ pc' = "manifest.json"
  /\ UNCHANGED <<docs, env, cfg, pdf_files, all_chunks, kb, call, out, readerVars, fn, voiceVars>>

\* manifest = self._build_manifest(pdf_paths), which stats every PDF again, and
\* the write of manifest.json; build then returns to ensure_index.
BuildWriteManifest ==
  /\ pc = "manifest.json"
  /\ IF \E i \in 1..Len(pdf_files) : ~IsFile(docs, pdf_files[i])
     THEN Abort("FileNotFoundError") /\ UNCHANGED art
     ELSE /\ art' = [art EXCEPT !["manifest.json"] = BuildManifest(docs, cfg, pdf_files)]
          /\ pc' = "load"
          /\ UNCHANGED <<pdf_files, all_chunks, call, out>>
  /\ UNCHANGED <<docs, env, cfg, kb, readerVars, fn, voiceVars>>

\* What a write that is cut short leaves of the artifact it had opened with
\* mode "w": meta.jsonl keeps the lines written so far, the others do not parse.
CutShort(n, chunks) ==
  IF n = "meta.jsonl"
  THEN {[kind |-> "meta", records |-> SubSeq(MetaRecords(chunks), 1, j)] :
          j \in 0..(Len(chunks) - 1)}
  ELSE {GarbledArt}

\* build raises out of one of its four writes (the disk is full, the process is
\* killed): before the file is opened, or with the file cut short.  The
\* exception is kept with the write it came out of.
BuildInterrupted ==
  /\ Act
  /\ pc \in Artifacts
  /\ \/ /\ UNCHANGED art
        /\ AbortWith([op |-> "ensure_index", result |-> "raise", error |-> "OSError",
                      at |-> pc, cut |-> FALSE, why |-> call])
     \/ \E v \in CutShort(pc, all_chunks) :
          /\ art' = [art EXCEPT ![pc] = v]
          /\ AbortWith([op |-> "ensure_index", result |-> "raise", error |-> "OSError",
                        at |-> pc, cut |-> TRUE, why |-> call])
  /\ UNCHANGED <<docs, cfg, kb, readerVars, fn, voiceVars>>

\* self._load_index() and the return of ensure_index.
EnsureIndexLoad ==
  /\ pc = "load"
  /\ LET r == LoadIndex(kb, art)
     IN /\ kb' = r.kb
        /\ out' = [op |-> "ensure_index",
                   result |-> IF r.error = "none" THEN "ok" ELSE "raise",
                   error |-> r.error, built |-> call.built,
                   after_ok |-> call.after_ok, changed |-> call.changed,
                   quiet |-> ~call.dirty]
  /\ pc' = "idle"
  /\ pdf_files' = <<>>
  /\ all_chunks' = <<>>
  /\ call' = NoCall
  /\ UNCHANGED <<docs, art, env, cfg, readerVars, fn, voiceVars>>

\* ------------------------------------------------------------------ search
\* faiss IndexFlatIP.search(query, k) over n vectors with inner products sc:
\* the labels I[0], best first, padded with 0 (faiss's -1) when k > n.  The
\* order of vectors of equal score is left to faiss.
FaissSearch(sc, n, k) ==
  { [i \in 1..k |-> IF i <= n THEN p[i] ELSE 0] :
      p \in { q \in [1..n -> 1..n] :
                /\ \A i, j \in 1..n : i # j => q[i] # q[j]
                /\ \A i, j \in 1..n : i < j => sc[q[i]] >= sc[q[j]] } }

\* The loop of search over zip(D[0], I[0]): a label outside the metadata is
\* skipped (labels are 1-based here, so the test is idx < 1 or idx > len).
RECURSIVE SearchHits(_, _, _, _)
SearchHits(sc, I, metas, i) ==
  IF i > Len(I) THEN <<>>
  ELSE IF I[i] < 1 \/ I[i] > Len(metas) THEN SearchHits(sc, I, metas, i + 1)
  ELSE <<[score |-> sc[I[i]], text |-> metas[I[i]].text,
          source |-> metas[I[i]].source, page |-> metas[I[i]].page,
          lang |-> metas[I[i]].lang]>>
         \o SearchHits(sc, I, metas, i + 1)

Ks == 1..MaxK
Scores(n) == [1..n -> 0..MaxScore]
\* The result of a query is looked at once: asked again of the same knowledge
\* base, a query has the same possible results.
QueryFresh == out.op \notin {"search", "answer", "rerank"}

\* if self._index is None or self._model is None
NotLoadedIndexOnly(k) == k.index = NoIndex
NotLoaded(k) == k.index = NoIndex \/ k.model = NoModel

\* PDFKnowledgeBase.search(query, k): the scores the query has against the
\* stored vectors are the embedding model's and can be anything.
Search(k) ==
  /\ pc = "idle"
  /\ QueryFresh
  /\ IF NotLoaded(kb)
     THEN out' = Raise("search", IndexNotLoadedError)
     ELSE \E sc \in Scores(Len(kb.index.vectors)) :
            \E I \in FaissSearch(sc, Len(kb.index.vectors), k) :
              out' = [op |-> "search", result |-> "ok", k |-> k,
                      encoded_with |-> kb.model,
                      hits |-> SearchHits(sc, I, kb.metas, 1)]
  /\ UNCHANGED <<docs, art, env, cfg, pc, pdf_files, all_chunks, kb, call, readerVars, fn, voiceVars>>

\* ------------------------------------------------------------------ rerank
\* sorted(..., key=score, reverse=True) is stable: an item goes behind every
\* item placed before it whose score is at least its own.
InsertDescUnstable(sorted, x) ==
  LET before == {j \in 1..Len(sorted) : sorted[j].score > x.score}
      n == Cardinality(before)
  IN SubSeq(sorted, 1, n) \o <<x>> \o SubSeq(sorted, n + 1, Len(sorted))

InsertAsc(sorted, x) ==
  LET before == {j \in 1..Len(sorted) : sorted[j].score <= x.score}
      n == Cardinality(before)
  IN SubSeq(sorted, 1, n) \o <<x>> \o SubSeq(sorted, n + 1, Len(sorted))

InsertDesc(sorted, x) ==
  LET before == {j \in 1..Len(sorted) : sorted[j].score >= x.score}
      n == Cardinality(before)
  IN SubSeq(sorted, 1, n) \o <<x>> \o SubSeq(sorted, n + 1, Len(sorted))

RECURSIVE SortedDesc(_)
SortedDesc(s) ==
  IF s = <<>> THEN <<>>
  ELSE InsertDesc(SortedDesc(SubSeq(s, 1, Len(s) - 1)), s[Len(s)])

\* Python's s[:m]: the first m items, or all but the last -m when m < 0.
PySlice(s, m) ==
  IF m >= 0 THEN SubSeq(s, 1, Min2(m, Len(s)))
  ELSE SubSeq(s, 1, Max2(Len(s) + m, 0))

\* PDFKnowledgeBase.rerank, given the scores cross_encoder.predict returned.
Rerank(hits, scores, top_m) ==
  LET rescored == SortedDesc([i \in 1..Len(hits) |-> [score |-> scores[i], hit |-> hits[i]]])
      top == PySlice(rescored, top_m)
  IN [i \in 1..Len(top) |-> [top[i].hit EXCEPT !.score = top[i].score]]

\* The hits a caller may hand to rerank.
HitSet == [score : 0..MaxScore, text : {"x", "y"}, source : {"a.pdf"}, page : {1}]
HitLists == UNION {[1..n -> HitSet] : n \in 0..MaxK}

\* A re-ranker that scores the item at position i with i.
PositionScores(n) == [i \in 1..n |-> i]

\* rerank(question, hits, model_name, top_m) called on its own: the scores
\* cross_encoder.predict returns can be anything.
RerankCall(hits, top_m) ==
  /\ pc = "idle"
  /\ QueryFresh
  /\ \/ out' = RaiseBecause("rerank", RerankerUnavailableError, "reranker unavailable")
     \/ \E rs \in Scores(Len(hits)) \cup {PositionScores(Len(hits))} :
          out' = [op |-> "rerank", result |-> "ok", given |-> hits, scores |-> rs,
                  top_m |-> top_m, hits |-> Rerank(hits, rs, top_m)]
  /\ UNCHANGED <<docs, art, env, cfg, pc, pdf_files, all_chunks, kb, call, readerVars, fn, voiceVars>>

\* ------------------------------------------------------------------ answer
\* build_prompt: one block per hit, "[source p.page]" and the text, in order.
BuildPrompt(hits) ==
  [i \in 1..Len(hits) |->
     [tag |-> <<hits[i].source, hits[i].page>>, text |-> hits[i].text]]

\* The hits answer returns: the variable it passed to build_prompt.
AnswerHitsStale(searched, prompted) == searched
AnswerHits(searched, prompted) == prompted

\* How the one generation call can fail: call_openai without OPENAI_API_KEY, or
\* the request to the backend (requests / the openai client) raising its own
\* exception.
GenerationFailures ==
  { [error |-> NotConfiguredError, cause |-> "generation backend not configured"],
    [error |-> "RequestException", cause |-> "generation backend unreachable"] }

\* if use_rerank and hits
WantsRerankAlways(use_rerank, hits) == use_rerank
WantsRerank(use_rerank, hits) == use_rerank /\ hits # <<>>

\* What answer does once search has returned these hits: the optional rerank,
\* the prompt, the one generation call, the return.  The calls answer made are
\* kept in steps, and the top_m of each rerank call in rerank_top_m.
AnswerAfterSearch(searched, use_rerank, final_m) ==
  LET finish(prompted, steps, top_m) ==
        { [op |-> "answer", result |-> "raise", error |-> g.error, cause |-> g.cause,
           use_rerank |-> use_rerank, final_m |-> final_m, searched |-> searched,
           steps |-> steps \o <<"build_prompt", "generate">>, rerank_top_m |-> top_m,
           prompt |-> BuildPrompt(prompted), prompt_hits |-> prompted] :
            g \in GenerationFailures }
        \cup
        { [op |-> "answer", result |-> "ok",
           use_rerank |-> use_rerank, final_m |-> final_m, searched |-> searched,
           steps |-> steps \o <<"build_prompt", "generate">>, rerank_top_m |-> top_m,
           prompt |-> BuildPrompt(prompted), prompt_hits |-> prompted,
           hits |-> AnswerHits(searched, prompted)] }
  IN IF WantsRerank(use_rerank, searched)
     THEN LET top_m == Min2(final_m, Len(searched))
          IN { [op |-> "answer", result |-> "raise", error |-> RerankerUnavailableError,
                cause |-> "reranker unavailable",
                use_rerank |-> use_rerank, final_m |-> final_m, searched |-> searched,
                steps |-> <<"search", "rerank">>, rerank_top_m |-> <<top_m>>] }
               \cup UNION {finish(Rerank(searched, rs, top_m), <<"search", "rerank">>,
                                  <<top_m>>) :
                             rs \in Scores(Len(searched))}
     ELSE finish(searched, <<"search">>, <<>>)

\* PDFKnowledgeBase.answer(question, k, use_rerank=..., final_m=...)
Answer(k, use_rerank, final_m) ==
  /\ pc = "idle"
  /\ QueryFresh
  /\ IF NotLoaded(kb)
     THEN out' = [op |-> "answer", result |-> "raise", error |-> IndexNotLoadedError,
                  cause |-> "index not loaded", use_rerank |-> use_rerank,
                  final_m |-> final_m, steps |-> <<"search">>, rerank_top_m |-> <<>>]
     ELSE \E sc \in Scores(Len(kb.index.vectors)) :
            \E I \in FaissSearch(sc, Len(kb.index.vectors), k) :
              out' \in AnswerAfterSearch(SearchHits(sc, I, kb.metas, 1), use_rerank, final_m)
  /\ UNCHANGED <<docs, art, env, cfg, pc, pdf_files, all_chunks, kb, call, readerVars, fn, voiceVars>>

\* ------------------------------------------------------ the second process
\* load_index(out_dir) in another process, one read at a time.
ReaderReadIndex ==
  /\ rpc = "idle"
  /\ IF art["index.faiss"].kind # "index"
     THEN UNCHANGED readerVars
     ELSE /\ rd' = [Unloaded EXCEPT !.index = art["index.faiss"]]
          /\ rpc' = "meta.jsonl"
  /\ UNCHANGED <<docs, art, env, cfg, pc, pdf_files, all_chunks, kb, call, out, fn, voiceVars>>

ReaderReadMeta ==
  /\ rpc = "meta.jsonl"
  /\ IF art["meta.jsonl"].kind # "meta"
     THEN rd' = Unloaded /\ rpc' = "idle"
     ELSE /\ rd' = [rd EXCEPT !.metas = art["meta.jsonl"].records]
          /\ rpc' = "config.json"
  /\ UNCHANGED <<docs, art, env, cfg, pc, pdf_files, all_chunks, kb, call, out, fn, voiceVars>>

ReaderReadConfig ==
  /\ rpc = "config.json"
  /\ IF art["config.json"].kind # "config"
     THEN rd' = Unloaded /\ rpc' = "idle"
     ELSE /\ rd' = [rd EXCEPT !.cfg = art["config.json"],
                              !.model = art["config.json"].embedding_model]
          /\ rpc' = "loaded"
  /\ UNCHANGED <<docs, art, env, cfg, pc, pdf_files, all_chunks, kb, call, out, fn, voiceVars>>

\* The process drops what load_index returned.
ReaderDrop ==
  /\ rpc = "loaded"
  /\ rd' = Unloaded
  /\ rpc' = "idle"
  /\ UNCHANGED <<docs, art, env, cfg, pc, pdf_files, all_chunks, kb, call, out, fn, voiceVars>>

\* -------------------------------------------------------------- chunk_text
\* Texts are sequences of characters; positions are Python's, counted from 0.
Chars == {"a", ".", " ", "\n"}
Whitespace == {" ", "\n"}
Texts == UNION {[1..n -> Chars] : n \in 0..MaxText}

\* text[lo:hi] for 0 <= lo <= hi <= len(text)
Slice(t, lo, hi) == SubSeq(t, lo + 1, hi)

\* " ".join(text.split()): runs of whitespace become one space, and there is
\* none at either end.
RECURSIVE Collapse(_, _)
Collapse(t, acc) ==
  IF t = <<>> THEN acc
  ELSE IF Head(t) \in Whitespace
       THEN IF acc = <<>> \/ acc[Len(acc)] = " "
            THEN Collapse(Tail(t), acc)
            ELSE Collapse(Tail(t), Append(acc, " "))
       ELSE Collapse(Tail(t), Append(acc, Head(t)))

Normalize(t) ==
  LET c == Collapse(t, <<>>)
  IN IF c # <<>> /\ c[Len(c)] = " " THEN SubSeq(c, 1, Len(c) - 1) ELSE c

\* str.strip() of text[lo:hi], as the positions it keeps: <<lo', hi'>> with
\* lo' = hi' when nothing is left.
StripSpan(t, lo, hi) ==
  LET inked == {i \in lo..(hi - 1) : t[i + 1] \notin Whitespace}
  IN IF inked = {} THEN <<lo, lo>>
     ELSE <<CHOOSE i \in inked : \A j \in inked : i <= j,
            (CHOOSE i \in inked : \A j \in inked : i >= j) + 1>>

Strip(t, lo, hi) == Slice(t, StripSpan(t, lo, hi)[1], StripSpan(t, lo, hi)[2])

\* text.rfind(sep, lo, hi): the highest position at which sep lies wholly inside
\* text[lo:hi], or -1.
RFind(t, sep, lo, hi) ==
  LET at == {i \in lo..(hi - Len(sep)) : Slice(t, i, i + Len(sep)) = sep}
  IN IF at = {} THEN -1 ELSE CHOOSE i \in at : \A j \in at : i >= j

\* [". ", "; ", ": ", "\n", " "]
Seps == << <<".", " ">>, <<";", " ">>, <<":", " ">>, <<"\n">>, <<" ">> >>

\* int(chunk_size * 0.8)
SearchFrom(chunk_size) == (chunk_size * 8) \div 10

\* The cut of the window text[start:end]: just behind the last occurrence of
\* the first separator of the list that occurs at all, or end.
Cut(t, start, end, chunk_size) ==
  LET lo == start + SearchFrom(chunk_size)
      found == {k \in 1..Len(Seps) : RFind(t, Seps[k], lo, end) # -1}
  IN IF found = {} THEN end
     ELSE LET k == CHOOSE x \in found : \A y \in found : x <= y
          IN RFind(t, Seps[k], lo, end) + Len(Seps[k])

\* start = max(cut - overlap, 0)
NextStartWide(cut, overlap) == Max2(cut - overlap - 1, 0)
NextStart(cut, overlap) == Max2(cut - overlap, 0)

\* return [c for c in chunks if c]
NonEmpty(chunks) == SelectSeq(chunks, LAMBDA c : c.text # <<>>)

\* The calls of chunk_text(text, chunk_size, overlap) made.
ChunkTextCalls ==
  [op : {"chunk_text"}, at : {"call"}, raw : Texts,
   chunk_size : 1..MaxChunkSize, overlap : 0..MaxOverlap]

\* chunk_text up to the loop: the normalisation and the empty-text return.
ChunkTextBegin ==
  /\ fn.op = "chunk_text" /\ fn.at = "call"
  /\ LET text == Normalize(fn.raw)
     IN fn' = [op |-> "chunk_text",
               at |-> IF text = <<>> THEN "return" ELSE "loop",
               raw |-> fn.raw, chunk_size |-> fn.chunk_size, overlap |-> fn.overlap,
               text |-> text, start |-> 0, seen |-> {}, chunks |-> <<>>,
               result |-> <<>>]
  /\ UNCHANGED <<docs, art, env, cfg, pc, pdf_files, all_chunks, kb, call, out, readerVars, voiceVars>>

\* One pass of the while loop, and the return when the cut reaches the end.  A
\* chunk is kept with the window it was cut from.  The loop's whole state is
\* start: when the next start is one a pass has begun with already, the loop
\* repeats itself for ever and the call never returns ("never").
ChunkTextPass ==
  /\ fn.op = "chunk_text" /\ fn.at = "loop"
  /\ LET n == Len(fn.text)
         end == Min2(fn.start + fn.chunk_size, n)
         cut == Cut(fn.text, fn.start, end, fn.chunk_size)
         chunks == Append(fn.chunks, [start |-> fn.start, cut |-> cut,
                                       text |-> Strip(fn.text, fn.start, cut)])
         next == NextStart(cut, fn.overlap)
         seen == fn.seen \cup {fn.start}
     IN IF cut >= n
        THEN fn' = [fn EXCEPT !.at = "return", !.chunks = chunks, !.seen = seen,
                              !.result = NonEmpty(chunks)]
        ELSE IF next \in seen
        THEN fn' = [fn EXCEPT !.at = "never", !.chunks = chunks, !.seen = seen,
                              !.start = next]
        ELSE fn' = [fn EXCEPT !.chunks = chunks, !.seen = seen, !.start = next]
  /\ UNCHANGED <<docs, art, env, cfg, pc, pdf_files, all_chunks, kb, call, out, readerVars, voiceVars>>

\* ------------------------------------------------- extraction on its own
\* The PDFs handed to build on their own: one PDF of any pages, alone or next
\* to a PDF of at most one page.
Pdfs == UNION {[1..n -> Pages] : n \in 0..MaxPages}
OnePagers == {p \in Pdfs : Len(p) <= 1}
Corpora ==
  {<<[name |-> "a.pdf", pages |-> p]>> : p \in Pdfs}
    \cup {<<[name |-> "a.pdf", pages |-> p], [name |-> "b.pdf", pages |-> q]>> :
            p \in Pdfs, q \in OnePagers}
    \cup {<<[name |-> "a.pdf", pages |-> q], [name |-> "b.pdf", pages |-> p]>> :
            p \in Pdfs, q \in OnePagers}

\* build's extraction loop over these PDFs and its check for text.
ExtractCall ==
  /\ fn.op = "build" /\ fn.at = "call"
  /\ LET chunks == Flatten([k \in 1..Len(fn.pdfs) |->
                             ExtractPages(fn.pdfs[k].pages,
                                          [doc |-> fn.pdfs[k].name, size |-> Len(fn.pdfs[k].pages)],
                                          fn.pdfs[k].name, cfg)])
     IN fn' = [op |-> "build", at |-> IF NoChunks(chunks) THEN "raise" ELSE "write",
               pdfs |-> fn.pdfs, all_chunks |-> chunks]
  /\ UNCHANGED <<docs, art, env, cfg, pc, pdf_files, all_chunks, kb, call, out, readerVars, voiceVars>>

\* --------------------------------------------------------- OpenAIRetriever
\* An attribute that may be None is a sequence of at most one value.
Nothing == <<>>
Some(x) == <<x>>
\* Python's "x or d" on such an attribute: None and 0 are falsy.
OrElse(x, d) == IF x = Nothing \/ x[1] = 0 THEN d ELSE x[1]

\* The annotations of the output_text contents of one response, in order.  The
\* values are those in effect after the file_citation sub-object, if any,
\* has overridden the annotation's own.
Annotations ==
  [type : {"file_citation", "url_citation"},
   file_id : {Nothing, Some("file-1")},
   page : {Nothing, Some(0), Some(1)},
   quote : {Some("q")},
   score : {Some(sc) : sc \in 0..MaxScore}]
Responses == UNION {[1..n -> Annotations] : n \in 0..MaxAnnotations}

\* key = f"{file_id}:{page}:{quote}"
Key(a) == <<a.file_id, a.page, a.quote>>

\* Hit(score=float(score or 0.0), text=snippet, source=filename,
\*     page=int(page or 0), file_id=file_id); the file name is looked up by
\* file id and falls back on it.
HitOf(a) ==
  [score |-> OrElse(a.score, 0), text |-> a.quote[1], source |-> a.file_id[1],
   page |-> OrElse(a.page, 0), file_id |-> a.file_id[1]]

\* OpenAIRetriever._extract_hits: the loop over the annotations.
RECURSIVE ExtractHitsFrom(_, _, _, _)
ExtractHitsFrom(annotations, i, seen, hits) ==
  IF i > Len(annotations) THEN hits
  ELSE LET a == annotations[i]
       IN IF a.type # "file_citation" \/ a.file_id = Nothing \/ Key(a) \in seen
          THEN ExtractHitsFrom(annotations, i + 1, seen, hits)
          ELSE ExtractHitsFrom(annotations, i + 1, seen \cup {Key(a)},
                               Append(hits, HitOf(a)))

ExtractHits(response) == ExtractHitsFrom(response, 1, {}, <<>>)

\* top_k = k or self.default_top_k
TopK(k) == OrElse(k, DefaultTopK)

\* OpenAIRetriever.ask, given the response the API returned: hits[:top_k]
AskHits(response, k) == PySlice(ExtractHits(response), TopK(k))

\* The calls of ask(question, k=k) and search(query, k=k) made, each with the
\* response the hosted API gives it.
RetrieverCalls ==
  [op : {"ask", "search"}, at : {"call"}, response : Responses,
   k : {Nothing} \cup {Some(k) : k \in 0..MaxK}]

\* ask returns (answer, hits[:top_k]).
Ask ==
  /\ fn.op = "ask" /\ fn.at = "call"
  /\ fn' = [op |-> "ask", at |-> "return", response |-> fn.response, k |-> fn.k,
            hits |-> AskHits(fn.response, fn.k)]
  /\ UNCHANGED <<docs, art, env, cfg, pc, pdf_files, all_chunks, kb, call, out, readerVars, voiceVars>>

\* search: _, hits = self.ask(query, k=k); return hits[: k or self.default_top_k]
RetrieverSearch ==
  /\ fn.op = "search" /\ fn.at = "call"
  /\ fn' = [op |-> "search", at |-> "return", response |-> fn.response, k |-> fn.k,
            hits |-> PySlice(AskHits(fn.response, fn.k), TopK(fn.k))]
  /\ UNCHANGED <<docs, art, env, cfg, pc, pdf_files, all_chunks, kb, call, out, readerVars, voiceVars>>

\* ------------------------------------------------------- agent entrypoint
\* The state of entrypoint(ctx) is the record agent: the position of the
\* coroutine (pc), its nonlocal variables under their names, the tasks it has
\* created (timers: the _close_after_disconnect tasks asleep; greetings: the
\* _speak_welcome_back tasks not done), the clock (now = time.monotonic()), the
\* session and the room (present: the remote participant is in the room).
\* disconnects and greeted_for count the disconnects seen, now and when the
\* last welcome-back was started; connected_at is the time the participant
\* last joined.
AgentStart(grace, cooldown, present) ==
  [pc |-> "start", session |-> "running", handlers |-> TRUE, present |-> present,
   rejoin_grace_seconds |-> grace, rejoin_greeting_cooldown |-> cooldown,
   now |-> cooldown,
   initial_greeting_sent |-> FALSE, last_rejoin_greet |-> 0,
   pending_rejoin_greeting |-> FALSE, disconnect_token |-> 0,
   rejoin_timeout_task |-> Nothing, rejoin_greeting_task |-> Nothing,
   remote_identity |-> Nothing,
   timers |-> {}, greetings |-> {}, tasks |-> 0,
   disconnects |-> 0, greeted_for |-> 0, connected_at |-> cooldown]

\* _cancel_rejoin_timeout: a task cancelled in its sleep returns from it.
CancelRejoinTimeout(a) ==
  IF a.rejoin_timeout_task = Nothing THEN a
  ELSE [a EXCEPT !.timers = {t \in @ : t.id # a.rejoin_timeout_task[1]},
                 !.rejoin_timeout_task = Nothing]

\* if not initial_greeting_sent or not pending_rejoin_greeting: return
NothingToGreetUngreeted(a) == ~a.pending_rejoin_greeting
NothingToGreet(a) == ~a.initial_greeting_sent \/ ~a.pending_rejoin_greeting

\* if now - last_rejoin_greet < rejoin_greeting_cooldown: return
CoolingDown(a) == a.now - a.last_rejoin_greet < a.rejoin_greeting_cooldown

\* if rejoin_greeting_task is not None and not rejoin_greeting_task.done(): return
GreetingInFlight(a) ==
  a.rejoin_greeting_task # Nothing /\ a.rejoin_greeting_task[1] \in a.greetings

\* _issue_welcome_back
IssueWelcomeBack(a) ==
  IF NothingToGreet(a) \/ CoolingDown(a) \/ GreetingInFlight(a) THEN a
  ELSE LET b == CancelRejoinTimeout([a EXCEPT !.pending_rejoin_greeting = FALSE,
                                               !.last_rejoin_greet = a.now])
           task == a.tasks + 1
       IN [b EXCEPT !.tasks = task, !.greetings = @ \cup {task},
                    !.rejoin_greeting_task = Some(task),
                    !.greeted_for = a.disconnects]

\* _on_participant_connected, for the remote participant.
OnParticipantConnected(a) ==
  IssueWelcomeBack([a EXCEPT !.remote_identity = Some("user")])

\* _on_participant_disconnected, for the remote participant.
OnParticipantDisconnected(a) ==
  LET b == CancelRejoinTimeout([a EXCEPT !.pending_rejoin_greeting = TRUE,
                                         !.disconnect_token = a.now])
      task == a.tasks + 1
  IN IF a.rejoin_grace_seconds > 0
     THEN [b EXCEPT !.tasks = task, !.rejoin_timeout_task = Some(task),
                    !.timers = @ \cup {[id |-> task, expected_token |-> a.now,
                                         deadline |-> a.now + a.rejoin_grace_seconds,
                                         armed_by |-> a.disconnects + 1]}]
     ELSE b

\* _handle_session_close
HandleSessionClose(a) ==
  LET b == CancelRejoinTimeout([a EXCEPT !.pending_rejoin_greeting = FALSE,
                                         !.remote_identity = Nothing])
  IN [b EXCEPT !.greetings = IF b.rejoin_greeting_task = Nothing THEN @
                             ELSE @ \ {b.rejoin_greeting_task[1]},
               !.rejoin_greeting_task = Nothing,
               !.handlers = FALSE]

AgentOnly == UNCHANGED <<docs, art, env, cfg, pc, pdf_files, all_chunks, kb, call, out,
                         readerVars, fn, tool>>
Running == agent.pc # "none"

\* time.monotonic() moves on.
Tick ==
  /\ Running /\ agent.now < MaxTime
  /\ agent' = [agent EXCEPT !.now = @ + 1]
  /\ AgentOnly

\* await session.start(...) returns; the loop over ctx.room.remote_participants.
SessionStarted ==
  /\ agent.pc = "start" /\ agent.session = "running"
  /\ agent' = [(IF agent.present THEN OnParticipantConnected(agent) ELSE agent)
                 EXCEPT !.pc = "greet"]
  /\ AgentOnly

\* await session.generate_reply(...) returns; initial_greeting_sent = True
InitialGreetingDone ==
  /\ agent.pc = "greet" /\ agent.session = "running"
  /\ agent' = [agent EXCEPT !.pc = "done", !.initial_greeting_sent = TRUE]
  /\ AgentOnly

\* The remote participant joins the room: participant_connected.
ParticipantConnected ==
  /\ Running /\ ~agent.present
  /\ agent' = [(IF agent.handlers THEN OnParticipantConnected(agent) ELSE agent)
                 EXCEPT !.present = TRUE, !.connected_at = agent.now]
  /\ AgentOnly

\* The remote participant leaves the room: participant_disconnected.
ParticipantDisconnected ==
  /\ Running /\ agent.present /\ agent.disconnects < MaxDisconnects
  /\ agent' = [(IF agent.handlers THEN OnParticipantDisconnected(agent) ELSE agent)
                 EXCEPT !.present = FALSE, !.disconnects = @ + 1]
  /\ AgentOnly

\* user_state_changed: _handle_user_state, which stays registered when the
\* session has closed.
UserStateChanged(new_state) ==
  /\ Running
  /\ agent' = IF new_state \in {"listening", "speaking"}
               THEN IssueWelcomeBack(agent) ELSE agent
  /\ AgentOnly

\* asyncio.sleep(rejoin_grace_seconds) is over in a _close_after_disconnect
\* task: the test, and session.aclose() begun.
TimerExpires ==
  /\ Running
  /\ \E t \in agent.timers :
       /\ agent.now >= t.deadline
       /\ agent' = [agent EXCEPT
                      !.timers = @ \ {t},
                      !.session =
                        IF /\ agent.pending_rejoin_greeting
                           /\ agent.rejoin_grace_seconds > 0
                           /\ agent.disconnect_token = t.expected_token
                           /\ @ = "running"
                        THEN "aclose" ELSE @]
  /\ AgentOnly

\* A _speak_welcome_back task finishes; its done callback _clear_task.
GreetingDone ==
  /\ Running
  /\ \E task \in agent.greetings :
       agent' = [agent EXCEPT
                   !.greetings = @ \ {task},
                   !.rejoin_greeting_task = IF @ = Some(task) THEN Nothing ELSE @]
  /\ AgentOnly

\* The session closes, by aclose() or because the job ends: the close event.
SessionClose ==
  /\ Running /\ agent.session # "closed"
  /\ agent' = [HandleSessionClose(agent) EXCEPT !.session = "closed"]
  /\ AgentOnly

\* ------------------------------------------------- search_document_corpus
\* One call of the tool is the record tool: where the coroutine stands (pc),
\* its argument citations, what rag_client.ask gave it (outcome), where its
\* status task stands (status: "sleeping" in asyncio.sleep, "replying" in
\* session.generate_reply, "done"), whether a cancel() of the status task is
\* yet to reach it (cancelling), which way it left (left), how the call ended
\* (result), and replies, the number of status replies generated.
ToolCall(citations) ==
  [pc |-> "call", citations |-> citations, outcome |-> [kind |-> "none"],
   status |-> "none", cancelling |-> FALSE, left |-> "not", result |-> "none",
   replies |-> 0]

\* What asyncio.to_thread(rag_client.ask, ...) ends with: a response with so
\* many sources, a RuntimeError, or another exception.
Outcomes ==
  {[kind |-> "response", sources |-> n] : n \in 0..MaxK}
    \cup {[kind |-> "RuntimeError"], [kind |-> "Exception"]}

\* What the tool call ends with once its status task is awaited.
ToolResult(outcome, citations) ==
  IF outcome.kind = "RuntimeError" THEN "service unavailable"
  ELSE IF outcome.kind = "Exception" THEN "raise"
  ELSE IF outcome.sources = 0 THEN "no relevant passages"
  ELSE IF ~citations THEN "answer"
  ELSE "answer and sources"

Finished ==
  {"service unavailable", "raise", "no relevant passages", "answer",
   "answer and sources", "cancelled"}

ToolOnly == UNCHANGED <<docs, art, env, cfg, pc, pdf_files, all_chunks, kb, call, out,
                        readerVars, fn, agent>>

\* status_task = asyncio.create_task(_maybe_send_status_update(...)), and the
\* call of asyncio.to_thread.
ToolBegin ==
  /\ tool.pc = "call"
  /\ tool' = [tool EXCEPT !.pc = "ask", !.status = "sleeping"]
  /\ ToolOnly

\* _maybe_send_status_update: the sleep of delay_seconds is over and
\* session.generate_reply is called.
StatusReply ==
  /\ tool.status = "sleeping" /\ ~tool.cancelling
  /\ tool' = [tool EXCEPT !.status = "replying", !.replies = @ + 1]
  /\ ToolOnly

\* _maybe_send_status_update returns: generate_reply returned, or raised and
\* "except Exception: return" ran.
StatusDone(how) ==
  /\ tool.status = "replying" /\ ~tool.cancelling
  /\ tool' = [tool EXCEPT !.status = "done", !.left = how]
  /\ ToolOnly

\* The cancel() reaches the status task at its await: except
\* asyncio.CancelledError: return
StatusCancelled ==
  /\ tool.status \in {"sleeping", "replying"} /\ tool.cancelling
  /\ tool' = [tool EXCEPT !.status = "done", !.cancelling = FALSE,
                           !.left = "except CancelledError"]
  /\ ToolOnly

\* status_task.cancel() does nothing to a task that is done.
CancelStatus(t) ==
  IF t.status = "done" THEN t ELSE [t EXCEPT !.cancelling = TRUE]

\* asyncio.to_thread ends: in each of the three branches status_task.cancel()
\* and the beginning of "await status_task".
AskEnds(outcome) ==
  /\ tool.pc = "ask"
  /\ tool' = [CancelStatus(tool) EXCEPT !.pc = "await status_task", !.outcome = outcome]
  /\ ToolOnly

\* "await status_task" is over; the rest of the branch.
ToolEnds ==
  /\ tool.pc = "await status_task" /\ tool.status = "done"
  /\ tool' = [tool EXCEPT !.pc = "ended",
                           !.result = ToolResult(tool.outcome, tool.citations)]
  /\ ToolOnly

\* The tool call is cancelled while it awaits asyncio.to_thread:
\* asyncio.CancelledError is no Exception, and neither except clause runs.
ToolCancelled ==
  /\ tool.pc = "ask"
  /\ tool' = [tool EXCEPT !.pc = "ended", !.result = "cancelled"]
  /\ ToolOnly

\* ---------------------------------------------------------- specifications
DocsChange ==
  \/ \E p \in Names, f \in Files : WritePdf(p, f)
  \/ \E p \in Names : RemovePdf(p)
  \/ LinkPdf

Damage ==
  \/ \E n \in Artifacts : DeleteArtifact(n)
  \/ \E v \in {GarbledArt, NonObjectArt} : CorruptManifest(v)

EnsureIndex ==
  \/ EnsureIndexBegin
  \/ BuildExtract
  \/ BuildWriteIndex
  \/ BuildWriteMeta
  \/ BuildWriteConfig
  \/ BuildWriteManifest
  \/ EnsureIndexLoad

\* One knowledge base and its environment.
Next ==
  \/ DocsChange
  \/ Damage
  \/ BuildInterrupted
  \/ \E c \in Configs : Restart(c)
  \/ Close
  \/ EnsureIndex
  \/ \E k \in Ks : Search(k)

Spec == Init /\ [][Next]_vars

\* The knowledge base rebuilding while a second process loads the directory.
NextReaders ==
  \/ DocsChange
  \/ EnsureIndex
  \/ ReaderReadIndex
  \/ ReaderReadMeta
  \/ ReaderReadConfig
  \/ ReaderDrop

SpecReaders == Init /\ [][NextReaders]_vars

\* The knowledge base answering questions over an index it has built.
NextAnswer ==
  \/ EnsureIndex
  \/ Close
  \/ \E k \in Ks, use_rerank \in BOOLEAN, final_m \in 0..MaxK : Answer(k, use_rerank, final_m)

SpecAnswer == Init /\ [][NextAnswer]_vars

\* The knowledge base answering questions over whatever the index directory
\* has come to hold.
NextPipeline ==
  \/ EnsureIndex
  \/ Damage
  \/ BuildInterrupted
  \/ \E k \in Ks, use_rerank \in BOOLEAN, final_m \in 0..MaxK : Answer(k, use_rerank, final_m)

SpecPipeline == Init /\ [][NextPipeline]_vars

\* rerank on any list of hits, any scores and any top_m.
NextRerank == \E hits \in HitLists, top_m \in -1..MaxK : RerankCall(hits, top_m)

\* rerank reads neither directory: one documents directory is enough.
InitRerank == Init /\ docs["b.pdf"] = AbsentF

SpecRerank == InitRerank /\ [][NextRerank]_vars

\* chunk_text on any text, chunk_size and overlap.
NextChunk == ChunkTextBegin \/ ChunkTextPass

InitChunk == InitKb /\ docs["b.pdf"] = AbsentF /\ fn \in ChunkTextCalls /\ NoVoice

SpecChunk == InitChunk /\ [][NextChunk]_vars

\* The index directory damaged while the knowledge base keeps it up and a
\* second process loads it.
NextLoad ==
  \/ EnsureIndex
  \/ Damage
  \/ ReaderReadIndex
  \/ ReaderReadMeta
  \/ ReaderReadConfig
  \/ ReaderDrop

InitLoad == Init /\ docs["b.pdf"] = AbsentF

SpecLoad == InitLoad /\ [][NextLoad]_vars

\* chunk_text with a window whose searched part holds up to two separators:
\* the text is letters up to where the search begins, then anything.
CutChars == {"a", ".", ";", ":", " "}
CutTexts ==
  { [i \in 1..SearchFrom(CutChunkSize) |-> "a"] \o tail :
      tail \in UNION {[1..n -> CutChars] : n \in 0..MaxTail} }

NextCut == ChunkTextBegin \/ ChunkTextPass

InitCut ==
  /\ InitKb /\ docs["b.pdf"] = AbsentF
  /\ fn \in [op : {"chunk_text"}, at : {"call"}, raw : CutTexts,
              chunk_size : {CutChunkSize}, overlap : 0..MaxOverlap]
  /\ NoVoice

SpecCut == InitCut /\ [][NextCut]_vars

\* The hosted retriever on any response.
NextRetriever == Ask \/ RetrieverSearch

InitRetriever ==
  InitKb /\ docs["b.pdf"] = AbsentF /\ fn \in RetrieverCalls /\ NoVoice

SpecRetriever == InitRetriever /\ [][NextRetriever]_vars

\* The voice agent in its room.
NextAgent ==
  \/ Tick
  \/ SessionStarted
  \/ InitialGreetingDone
  \/ ParticipantConnected
  \/ ParticipantDisconnected
  \/ \E new_state \in {"listening", "speaking", "away"} : UserStateChanged(new_state)
  \/ TimerExpires
  \/ GreetingDone
  \/ SessionClose

InitAgent ==
  /\ InitKb /\ docs["b.pdf"] = AbsentF /\ fn = NoFn /\ tool = NoTool
  /\ agent \in {AgentStart(grace, cooldown, present) :
                   grace \in {0, RejoinGrace}, cooldown \in {0, RejoinCooldown},
                   present \in BOOLEAN}

SpecAgent == InitAgent /\ [][NextAgent]_vars

\* One call of the search_document_corpus tool.
NextTool ==
  \/ ToolBegin
  \/ StatusReply
  \/ \E how \in {"end", "except Exception"} : StatusDone(how)
  \/ StatusCancelled
  \/ \E outcome \in Outcomes : AskEnds(outcome)
  \/ ToolEnds
  \/ ToolCancelled

InitTool ==
  /\ InitKb /\ docs["b.pdf"] = AbsentF /\ fn = NoFn /\ agent = NoAgent
  /\ tool \in {ToolCall(citations) : citations \in BOOLEAN}

SpecTool == InitTool /\ [][NextTool]_vars

\* build's extraction on PDFs with failing pages and undetectable chunks.
NextExtract == ExtractCall

InitExtract ==
  /\ InitKb /\ docs["b.pdf"] = AbsentF
  /\ fn \in [op : {"build"}, at : {"call"}, pdfs : Corpora]
  /\ NoVoice

SpecExtract == InitExtract /\ [][NextExtract]_vars

\* ------------------------------------------------------------------ claims
\* ensure_index has just returned, and nothing touched the directories while
\* it ran.
ReturnedQuietly == out.op = "ensure_index" /\ out.result = "ok" /\ out.quiet
\* _needs_rebuild has just returned False (ensure_index goes on to load) and
\* the directories are as it saw them.
DecidedNoRebuild == pc = "load" /\ ~call.dirty
\* search serves from memory.
KbLoaded == kb.index # NoIndex /\ kb.model # NoModel

\* C1 (staleness idempotence): an ensure_index call that follows a successful
\* ensure_index call, with no change to the documents directory, the index
\* directory or the configuration before or during it, performs no build.
C1_SecondCallBuildsNothing ==
  (ReturnedQuietly /\ out.after_ok) => ~out.built

\* The stored manifest records every current PDF with its current size and
\* mtime_ns.
ManifestIsCurrent(d, a) ==
  /\ a["manifest.json"].kind = "manifest"
  /\ \A p \in Range(Glob(d)) : \E i \in 1..Len(a["manifest.json"].pdfs) :
       a["manifest.json"].pdfs[i] =
         [path |-> Resolve(d, p), size |-> Stat(d, p).size,
          mtime_ns |-> Stat(d, p).mtime_ns]

\* C2 (staleness sensitivity): when a PDF's size or mtime_ns differs from what
\* the stored manifest records, _needs_rebuild returns True and a build runs;
\* once ensure_index has returned, the manifest on disk records the current
\* size and mtime_ns of every PDF.
C2_Sensitivity ==
  /\ (pc # "idle" /\ call.changed) => call.built
  /\ ~(DecidedNoRebuild /\ FingerprintChanged(docs, art))
  /\ ReturnedQuietly => ManifestIsCurrent(docs, art)

\* An edited PDF has been re-indexed and the new manifest records it.
C2_Witness ==
  /\ ReturnedQuietly /\ out.changed /\ out.built
  /\ ManifestIsCurrent(docs, art)

\* The three artifacts a loader reads are those of one build: vector i embeds
\* the text of record i under the embedding model and the chunking parameters
\* config.json names.
OneBuild(b) ==
  /\ Len(b.index.vectors) = Len(b.metas)
  /\ \A i \in 1..Len(b.metas) :
       /\ b.index.vectors[i].text = b.metas[i].text
       /\ b.index.vectors[i].model = b.cfg.embedding_model
       /\ b.metas[i].text.chunk_size = b.cfg.chunk_size
       /\ b.metas[i].text.overlap = b.cfg.overlap

\* C3 (atomic bundle visibility): what a second process has loaded while build
\* is writing is the bundle of one build, never a mix of two.
C3_ReaderSeesOneBuild == rpc = "loaded" => OneBuild(rd)

\* C4 (bundle join key): in a loaded knowledge base meta.jsonl has as many
\* records as index.faiss has vectors, and record i describes vector i.
C4_JoinKey ==
  KbLoaded =>
    /\ Len(kb.metas) = Len(kb.index.vectors)
    /\ \A i \in 1..Len(kb.metas) : kb.metas[i].text = kb.index.vectors[i].text

\* The PDFs found differ from those the stored manifest records: one was added
\* (its resolved path is not in the manifest), or the manifest has more, or
\* fewer, entries than there are PDFs.
MembershipDiffers(d, a) ==
  /\ a["manifest.json"].kind = "manifest"
  /\ \/ \E p \in Range(Glob(d)) :
          \A i \in 1..Len(a["manifest.json"].pdfs) :
            a["manifest.json"].pdfs[i].path # Resolve(d, p)
     \/ Len(a["manifest.json"].pdfs) # Len(Glob(d))

\* C5 (corpus-membership staleness): _needs_rebuild does not return False when
\* the PDFs found differ from those the stored manifest records.
C5_MembershipForcesRebuild ==
  ~(DecidedNoRebuild /\ MembershipDiffers(docs, art))

\* The loaded index was built with the configured embedding model, chunk size
\* and overlap.
ServesConfigured(k, c) ==
  \A i \in 1..Len(k.index.vectors) :
    /\ k.index.vectors[i].model = c.embedding_model
    /\ k.index.vectors[i].text.chunk_size = c.chunk_size
    /\ k.index.vectors[i].text.overlap = c.overlap

\* C6 (configuration drift): _needs_rebuild does not return False when the
\* stored manifest names another embedding model, chunk size or overlap, and
\* after ensure_index the knowledge base serves an index built with the
\* configured ones.
C6_NoDriftServed ==
  /\ (DecidedNoRebuild /\ art["manifest.json"].kind = "manifest") =>
       /\ art["manifest.json"].embedding_model = cfg.embedding_model
       /\ art["manifest.json"].chunk_size = cfg.chunk_size
       /\ art["manifest.json"].overlap = cfg.overlap
  /\ (out.op = "ensure_index" /\ out.result = "ok" /\ KbLoaded) =>
       ServesConfigured(kb, cfg)

\* An artifact is missing, or manifest.json does not hold a manifest.
Damaged(a) ==
  \/ \E n \in Artifacts : a[n] = NoArt
  \/ a["manifest.json"].kind # "manifest"

\* C7 (damaged bundle): with an artifact missing or a manifest that is not
\* usable, _needs_rebuild neither returns False nor raises.
C7_DamageForcesRebuild ==
  Damaged(art) =>
    /\ ~DecidedNoRebuild
    /\ ~(out.op = "ensure_index" /\ out.result = "raise"
           /\ out.error = "AttributeError")

\* C8 (search ordering): search(query, k) returns at most k hits, in
\* non-increasing score order, and exactly min(k, corpus size) of them, the
\* corpus size being the number of vectors or of metadata records loaded.
C8_SearchOrdering ==
  (out.op = "search" /\ out.result = "ok") =>
    /\ Len(out.hits) <= out.k
    /\ \A i \in 1..(Len(out.hits) - 1) : out.hits[i].score >= out.hits[i + 1].score
    /\ \/ Len(out.hits) = Min2(out.k, Len(kb.index.vectors))
       \/ Len(out.hits) = Min2(out.k, Len(kb.metas))

\* C9 (citation consistency): the hits answer returns are the list it passed
\* to build_prompt, so the prompt renders each of them, in order, and nothing
\* else.
C9_CitationConsistency ==
  (out.op = "answer" /\ out.result = "ok") =>
    /\ out.hits = out.prompt_hits
    /\ out.prompt = BuildPrompt(out.hits)

\* answer re-ranked the hits and returned them in another order than search's.
C9_Witness ==
  /\ out.op = "answer" /\ out.result = "ok"
  /\ Len(out.hits) >= 2
  /\ BuildPrompt(out.hits) # BuildPrompt(out.searched)

\* p lists the positions of the input in the order a stable sort by score,
\* highest first, puts them.
StableOrder(p, scores) ==
  /\ \A i, j \in DOMAIN p : i # j => p[i] # p[j]
  /\ \A i, j \in DOMAIN p : i < j =>
       \/ scores[p[i]] > scores[p[j]]
       \/ scores[p[i]] = scores[p[j]] /\ p[i] < p[j]

\* The result is the first m hits of the stable order, each with its new score.
RerankedTo(m) ==
  /\ Len(out.hits) = m
  /\ \E p \in [1..Len(out.given) -> 1..Len(out.given)] :
       /\ StableOrder(p, out.scores)
       /\ \A i \in 1..m :
            out.hits[i] = [out.given[p[i]] EXCEPT !.score = out.scores[p[i]]]

\* C10 (rerank contract), as stated: for every top_m the result is the first
\* min(top_m, len(hits)) input hits in stable score order, highest first, with
\* the re-ranker's scores.
C10_RerankContractAnyTopM ==
  (out.op = "rerank" /\ out.result = "ok") =>
    RerankedTo(Min2(out.top_m, Len(out.given)))

\* C10, amended: the same for top_m >= 0; a negative top_m drops the last
\* -top_m hits of the stable order instead.
C10_RerankContract ==
  (out.op = "rerank" /\ out.result = "ok") =>
    IF out.top_m >= 0
    THEN RerankedTo(Min2(out.top_m, Len(out.given)))
    ELSE RerankedTo(Max2(Len(out.given) + out.top_m, 0))

\* rerank moved a later hit in front of an earlier one, kept two hits of equal
\* score in their order, and cut the list.
C10_Witness ==
  /\ out.op = "rerank" /\ out.result = "ok"
  /\ Len(out.given) = 3 /\ out.top_m = 2 /\ Len(out.hits) = 2
  /\ out.scores[1] < out.scores[2] /\ out.scores[2] = out.scores[3]
  /\ out.given[2] # out.given[3]
\* C12 (chunker termination): chunk_text returns for every text, every
\* chunk_size >= 1 and every overlap >= 0; its loop never comes back to a start
\* it has had.
C12_ChunkTextTerminates == fn.op = "chunk_text" => fn.at # "never"

\* The positions of the normalized text a returned chunk holds.
Held(c) ==
  LET span == StripSpan(fn.text, c.start, c.cut) IN span[1]..(span[2] - 1)

\* C13 (chunk coverage): chunk_text returns no empty chunk, every character of
\* the normalized text is in a returned chunk, and a text that is empty or all
\* whitespace gives the empty list.
C13_ChunkCoverage ==
  (fn.op = "chunk_text" /\ fn.at = "return") =>
    /\ \A i \in 1..Len(fn.result) : fn.result[i].text # <<>>
    /\ \A p \in 0..(Len(fn.text) - 1) : \E i \in 1..Len(fn.result) : p \in Held(fn.result[i])
    /\ fn.text = <<>> => fn.result = <<>>

\* The number of positions the windows of two chunks share.
Shared(c, d) == Max2(Min2(c.cut, d.cut) - Max2(c.start, d.start), 0)

\* C14 (overlap bound): two consecutive chunks, of those cut and of those
\* returned, share at most overlap characters of the normalized text.
C14_OverlapBound ==
  (fn.op = "chunk_text" /\ fn.at # "call") =>
    /\ \A i \in 1..(Len(fn.chunks) - 1) :
         Shared(fn.chunks[i], fn.chunks[i + 1]) <= fn.overlap
    /\ \A i \in 1..(Len(fn.result) - 1) :
         Shared(fn.result[i], fn.result[i + 1]) <= fn.overlap

\* chunk_text returned two chunks that share exactly overlap characters.
C14_Witness ==
  /\ fn.op = "chunk_text" /\ fn.at = "return"
  /\ fn.overlap >= 1
  /\ \E i \in 1..(Len(fn.result) - 1) :
       Shared(fn.result[i], fn.result[i + 1]) = fn.overlap
\* rerank was given all of a list to return.
RerankedWhole == out.op = "rerank" /\ out.result = "ok" /\ out.top_m = Len(out.given)

\* C11 (rerank stability), as stated: with the item at position i scored i and
\* top_m the length of the list, the output order is the input order.
C11_PositionScoresKeepOrder ==
  (RerankedWhole /\ out.scores = PositionScores(Len(out.given))) =>
    out.hits = [i \in 1..Len(out.given) |-> [out.given[i] EXCEPT !.score = out.scores[i]]]

\* C11, amended: with the item at position i scored i the output is the input
\* in reverse order, the highest score first; the output order is the input
\* order when the scores never increase along the list.
C11_RerankMonotone ==
  RerankedWhole =>
    LET n == Len(out.given)
    IN /\ out.scores = PositionScores(n) =>
            out.hits = [i \in 1..n |->
                          [out.given[n + 1 - i] EXCEPT !.score = out.scores[n + 1 - i]]]
       /\ (\A i \in 1..(n - 1) : out.scores[i] >= out.scores[i + 1]) =>
            out.hits = [i \in 1..n |-> [out.given[i] EXCEPT !.score = out.scores[i]]]

\* rerank turned a list of three different hits, scored 1, 2, 3, around.
C11_Witness ==
  /\ RerankedWhole /\ Len(out.given) = 3
  /\ out.scores = PositionScores(3)
  /\ out.given[1].text # out.given[3].text
  /\ out.hits[1].text = out.given[3].text /\ out.hits[3].text = out.given[1].text
\* C15 (load state): search raises the index-not-loaded error exactly in the
\* unloaded states, whatever a failed load left behind; an ensure_index call
\* that returns leaves the knowledge base loaded; the fields are set only by
\* the load step, which is reached after the build when _needs_rebuild said
\* True and straight away when it said False.
C15_LoadState ==
  /\ [](/\ out.op = "search" =>
             IF KbLoaded THEN out.result = "ok"
             ELSE out = Raise("search", "RuntimeError")
        /\ (out.op = "ensure_index" /\ out.result = "ok") => KbLoaded)
  /\ [][/\ (pc' = "load" /\ pc # "load") =>
              \/ pc = "manifest.json"
              \/ pc = "idle" /\ NeedsRebuild(docs, art, cfg, Glob(docs)) = "False"
        /\ kb' # kb => (pc = "load" \/ kb' = Unloaded)]_vars

\* search raised on a knowledge base whose load had read index.faiss and then
\* failed.
C15_Witness ==
  /\ out = Raise("search", "RuntimeError")
  /\ kb.index # NoIndex /\ kb.model = NoModel
\* C16 (empty corpus): while the documents directory holds no PDF, an
\* ensure_index call raises FileNotFoundError and nothing else happens: no
\* build is started, nothing is loaded, the index directory and the loaded
\* fields stay as they were.
C16_EmptyCorpusRaises ==
  [][(pc = "idle" /\ Glob(docs) = <<>>) =>
       /\ pc' = "idle"
       /\ out'.op = "ensure_index" =>
            /\ out' = Raise("ensure_index", "FileNotFoundError")
            /\ art' = art /\ kb' = kb /\ pdf_files' = pdf_files]_vars

\* ensure_index raised on a loaded knowledge base whose last PDF had been
\* removed (the removal is all that has happened to the directories).
C16_Witness ==
  /\ out = Raise("ensure_index", "FileNotFoundError")
  /\ Glob(docs) = <<>> /\ env = 1
  /\ KbLoaded /\ \A n \in Artifacts : art[n] # NoArt
\* The four artifacts are on disk as a build wrote them.
BundleOnDisk ==
  /\ art["index.faiss"].kind = "index" /\ art["meta.jsonl"].kind = "meta"
  /\ art["config.json"].kind = "config" /\ art["manifest.json"].kind = "manifest"

\* C17 (build input errors): build raises ValueError when none of its paths is
\* a file and RuntimeError when the PDFs give no chunk at all, leaving the four
\* artifacts as they were; it writes an artifact only after both checks.
C17_BuildInputErrors ==
  [][/\ (pc = "extract" /\ pc' # "extract") =>
          LET paths == SelectSeq(pdf_files, LAMBDA p : IsFile(docs, p))
          IN /\ paths = <<>> =>
                  /\ out' = Raise("ensure_index", "ValueError")
                  /\ pc' = "idle" /\ art' = art
             /\ (paths # <<>> /\ ExtractAll(docs, paths, cfg) = <<>>) =>
                  /\ out' = Raise("ensure_index", "RuntimeError")
                  /\ pc' = "idle" /\ art' = art
     /\ (art' # art /\ env' = env) => (pc \in Artifacts /\ all_chunks # <<>>)]_vars

\* build found no text in the PDFs and raised; the bundle of the build before
\* is still on disk.
C17_Witness ==
  /\ out = Raise("ensure_index", "RuntimeError")
  /\ BundleOnDisk
  /\ \A p \in Range(Glob(docs)) : Stat(docs, p).size = 1
\* C18 (load requires the whole bundle): load_index returns only from a
\* directory whose manifest.json holds a manifest; index.faiss, meta.jsonl and
\* config.json it has read itself.
C18_LoadNeedsManifest ==
  [][(rpc = "config.json" /\ rpc' = "loaded") =>
       art["manifest.json"].kind = "manifest"]_vars
\* C19 (embedding-model mismatch): a query is encoded with the model the loaded
\* config.json names, and search serves only when that is the model the
\* knowledge base is configured with.
C19_MismatchIsAnError ==
  (out.op = "search" /\ out.result = "ok") =>
    /\ out.encoded_with = kb.cfg.embedding_model
    /\ kb.cfg.embedding_model = cfg.embedding_model
\* Page i of PDF k has text and at least j chunks.
HasChunk(k, i, j) ==
  /\ k \in 1..Len(fn.pdfs) /\ i \in 1..Len(fn.pdfs[k].pages)
  /\ fn.pdfs[k].pages[i].kind = "text" /\ j \in 1..fn.pdfs[k].pages[i].chunks

\* The PDF, page and position a chunk came from, as one number to order by.
Place(ch) ==
  LET k == CHOOSE x \in 1..Len(fn.pdfs) : fn.pdfs[x].name = ch.source
  IN (k * (MaxPages + 2) + ch.page) * (MaxPageChunks + 2) + ch.text.pos[2]

\* C20 (best-effort degradation): a page whose extraction raises or that is
\* blank gives no chunk, a chunk whose language detection raises is tagged
\* "unknown", and build goes on with every chunk of every other page and PDF,
\* in file, page and position order, each with its page number counted from 1;
\* build raises here only if no page of any PDF gave a chunk.
C20_BestEffort ==
  (fn.op = "build" /\ fn.at # "call") =>
    /\ \A k \in 1..Len(fn.pdfs) : \A i \in 1..MaxPages : \A j \in 1..MaxPageChunks :
         HasChunk(k, i, j) =>
           \E x \in 1..Len(fn.all_chunks) :
             /\ fn.all_chunks[x].source = fn.pdfs[k].name
             /\ fn.all_chunks[x].page = i
             /\ fn.all_chunks[x].text.pos = <<i, j>>
    /\ \A x \in 1..Len(fn.all_chunks) :
         LET ch == fn.all_chunks[x]
         IN \E k \in 1..Len(fn.pdfs) :
              /\ fn.pdfs[k].name = ch.source
              /\ HasChunk(k, ch.page, ch.text.pos[2])
              /\ ch.text.pos[1] = ch.page
              /\ ch.lang = "unknown" <=> fn.pdfs[k].pages[ch.page].undetected = ch.text.pos[2]
    /\ \A x \in 1..(Len(fn.all_chunks) - 1) :
         Place(fn.all_chunks[x]) < Place(fn.all_chunks[x + 1])
    /\ fn.at = "raise" <=>
         \A k \in 1..Len(fn.pdfs) : \A i \in 1..Len(fn.pdfs[k].pages) :
           fn.pdfs[k].pages[i].kind # "text"

\* build went on past a page that raised: the text page behind it and the
\* other PDF are indexed, one chunk without a detected language.
C20_Witness ==
  /\ fn.op = "build" /\ fn.at = "write"
  /\ Len(fn.pdfs) = 2 /\ Len(fn.pdfs[1].pages) = 2
  /\ fn.pdfs[1].pages[1] = RaisesPage /\ fn.pdfs[1].pages[2].kind = "text"
  /\ \E x \in 1..Len(fn.all_chunks) :
       fn.all_chunks[x].page = 2 /\ fn.all_chunks[x].lang = "unknown"
  /\ \E x \in 1..Len(fn.all_chunks) : fn.all_chunks[x].source = "b.pdf"
\* The classes of the structural failures: search without a loaded index, and
\* ensure_index on a documents directory without PDFs.
StructuralErrors == {IndexNotLoadedError, EmptyCorpusError}
\* The conditions under which a capability is unavailable.
CapabilityCauses == {"reranker unavailable", "generation backend not configured"}
\* C21 (distinct failure kinds): when answer or rerank fails because the
\* re-ranker is absent or the generation backend is not configured, the
\* exception that reaches the caller is of a class no structural failure has.
C21_DistinctFailureKinds ==
  (out.op \in {"answer", "rerank"} /\ out.result = "raise"
     /\ out.cause \in CapabilityCauses)
    => out.error \notin StructuralErrors
\* The positions of the window text[lo:hi] at which separator k lies, whole.
SepsIn(t, k, lo, hi) ==
  {p \in lo..(hi - Len(Seps[k])) : \A i \in 1..Len(Seps[k]) : t[p + i] = Seps[k][i]}

\* The cut the rule gives the window text[start:end]: behind the occurrence
\* nearest the end of the first separator in priority order that occurs no
\* earlier than 80% of chunk_size from the start, or the end.
RuleCut(t, start, end, chunk_size) ==
  LET lo == start + SearchFrom(chunk_size)
      ks == {k \in 1..Len(Seps) : SepsIn(t, k, lo, end) # {}}
  IN IF ks = {} THEN end
     ELSE LET k == CHOOSE x \in ks : \A y \in ks : x <= y
              p == CHOOSE x \in SepsIn(t, k, lo, end) :
                     \A y \in SepsIn(t, k, lo, end) : x >= y
          IN p + Len(Seps[k])

WindowEnd(c) == Min2(c.start + fn.chunk_size, Len(fn.text))

\* Every window holds at most chunk_size characters, and one that does not
\* reach the end of the text is cut by the rule.
CutByRule ==
  (fn.op = "chunk_text" /\ fn.at # "call") =>
    \A i \in 1..Len(fn.chunks) :
      LET c == fn.chunks[i]
      IN /\ c.cut - c.start <= fn.chunk_size
         /\ WindowEnd(c) < Len(fn.text) =>
              c.cut = RuleCut(fn.text, c.start, WindowEnd(c), fn.chunk_size)

\* C22 (chunk cut rule): every window of chunk_text holds at most chunk_size
\* characters; a window that would split the text is cut behind the separator
\* the rule names, or at its end when there is none; a window that reaches the
\* end of the text is emitted whole, as the last chunk.
C22_ChunkCutRule ==
  /\ CutByRule
  /\ (fn.op = "chunk_text" /\ fn.at # "call") =>
       \A i \in 1..Len(fn.chunks) :
         WindowEnd(fn.chunks[i]) = Len(fn.text) =>
           /\ fn.chunks[i].cut = Len(fn.text)
           /\ i = Len(fn.chunks)
\* How often answer made the call named.
Calls(name) == Cardinality({i \in 1..Len(out.steps) : out.steps[i] = name})

\* C23 (answer pipeline order): answer calls search, then rerank exactly when
\* use_rerank is set and search gave a hit, with top_m = min(final_m, number of
\* hits), then build_prompt, then the generation backend, once; when search or
\* rerank raises there is no generation call; with no hit the re-ranker is not
\* called and cannot fail the call.
C23_PipelineOrder ==
  out.op = "answer" =>
    /\ out.steps[1] = "search"
    /\ Calls("generate") <= 1
    /\ (out.result = "raise"
          /\ out.cause \in {"index not loaded", "reranker unavailable"}) =>
         Calls("generate") = 0
    /\ out.steps # <<"search">> =>
         /\ out.steps \in
              { IF out.use_rerank /\ out.searched # <<>>
                THEN <<"search", "rerank">> \o rest
                ELSE <<"search">> \o rest :
                  rest \in {<<>>, <<"build_prompt", "generate">>} }
         /\ Calls("rerank") = 1 =>
              out.rerank_top_m = <<Min2(out.final_m, Len(out.searched))>>
         /\ out.result = "ok" => Calls("generate") = 1
         /\ (out.use_rerank /\ out.searched = <<>>) =>
              /\ Calls("rerank") = 0
              /\ out.result = "raise" => out.cause # "reranker unavailable"

\* answer was asked to re-rank, search gave no hit, and answer returned.
C23_Witness ==
  /\ out.op = "answer" /\ out.result = "ok"
  /\ out.use_rerank /\ out.searched = <<>>
  /\ out.steps = <<"search", "build_prompt", "generate">>

\* answer re-ranked two hits down to final_m = 1 and returned.
C23_WitnessReranked ==
  /\ out.op = "answer" /\ out.result = "ok"
  /\ out.use_rerank /\ Len(out.searched) = 2 /\ out.final_m = 1
  /\ Len(out.hits) = 1
\* C25 (loaded state follows the disk): when ensure_index returns, the index
\* and the metadata search serves from memory are those of index.faiss and
\* meta.jsonl in the index directory, also when the call rebuilt the bundle
\* on a knowledge base an earlier call had loaded.  (Calls during which
\* something else touched the directories are left out.)
C25_LoadedFollowsDisk ==
  (out.op = "ensure_index" /\ out.result = "ok" /\ out.quiet) =>
    /\ kb.index = art["index.faiss"]
    /\ art["meta.jsonl"].kind = "meta" /\ kb.metas = art["meta.jsonl"].records
\* build was interrupted after it had begun to write the bundle and before
\* manifest.json was written, and nothing has happened since.
BuildWasInterrupted ==
  /\ out.op = "ensure_index" /\ out.result = "raise" /\ out.error = "OSError"
  /\ out.at # "index.faiss" \/ out.cut

\* C26 (an interrupted build is never served): after build was interrupted
\* between its first write and the end of the write of manifest.json, the
\* next ensure_index, on the same documents and configuration, does not go on
\* to load the directory: it rebuilds.
C26_InterruptedBuildNotServed ==
  [][BuildWasInterrupted => pc' # "load"]_vars
\* build has just written manifest.json, and each entry's size is the size of
\* the file version whose chunks build extracted.
ManifestOfExtracted ==
  (pc = "load" /\ call.built /\ art["manifest.json"].kind = "manifest") =>
    \A i \in 1..Len(art["manifest.json"].pdfs), j \in 1..Len(all_chunks) :
      all_chunks[j].text.doc = art["manifest.json"].pdfs[i].path =>
        all_chunks[j].text.size = art["manifest.json"].pdfs[i].size

\* _needs_rebuild has just returned False, and every chunk of the bundle was
\* extracted from the content its file has now.
NoRebuildMeansFresh ==
  (pc = "load" /\ ~call.built /\ ~call.dirty /\ art["meta.jsonl"].kind = "meta") =>
    \A j \in 1..Len(art["meta.jsonl"].records) :
      LET t == art["meta.jsonl"].records[j].text
      IN docs[t.doc] \in Files => t.size = docs[t.doc].size

\* C27 (manifest fingerprints match indexed content): when build returns, each
\* manifest entry is the fingerprint of the file version whose text went into
\* the index, also when a PDF is written while build runs; so _needs_rebuild
\* never returns False for a bundle whose content is older than the file.
C27_ManifestMatchesIndexed == ManifestOfExtracted /\ NoRebuildMeansFresh
\* C24 (hosted-backend hit ordering): the hits ask and search return for one
\* response are in descending order of score, are at most top_k, and no two
\* of them have the same file_id, page and quote.
C24_HostedHitOrdering ==
  (fn.op \in {"ask", "search"} /\ fn.at = "return") =>
    /\ \A i \in 1..(Len(fn.hits) - 1) : fn.hits[i].score >= fn.hits[i + 1].score
    /\ Len(fn.hits) <= TopK(fn.k)
    /\ \A i, j \in 1..Len(fn.hits) :
         (/\ fn.hits[i].file_id = fn.hits[j].file_id
          /\ fn.hits[i].page = fn.hits[j].page
          /\ fn.hits[i].text = fn.hits[j].text) => i = j
\* The step in which a _close_after_disconnect task calls session.aclose().
TimerCloses == agent.pc # "none" /\ agent.session = "running" /\ agent'.session = "aclose"

\* C28 (the rejoin timeout never closes an occupied session): a rejoin-timeout
\* task does not call session.aclose() when the remote participant came back
\* into the room before the grace period of that task ended, and only the
\* task armed by the latest disconnect calls it.
C28_TimeoutSparesOccupiedSession ==
  [][TimerCloses =>
       \E t \in agent.timers \ agent'.timers :
         /\ ~(agent.present /\ agent.connected_at < t.deadline)
         /\ t.armed_by = agent.disconnects]_vars
\* The step in which a welcome-back greeting task is created.
WelcomeBackStarts == agent.pc # "none" /\ agent'.tasks \in agent'.greetings \ agent.greetings

\* C29 (at most one welcome-back per disconnect): a welcome-back greeting is
\* started only after the initial greeting has completed, only when the remote
\* participant has disconnected since the last one was started (or since the
\* start), only while none is in flight, and never after the close handler
\* has run; no two are ever in flight.
C29_OneWelcomeBackPerDisconnect ==
  /\ [](agent.pc # "none" => Cardinality(agent.greetings) <= 1)
  /\ [][WelcomeBackStarts =>
          /\ agent.initial_greeting_sent
          /\ agent.disconnects > agent.greeted_for
          /\ agent.greetings = {}
          /\ agent.handlers /\ agent.session # "closed"]_vars

\* The second welcome-back greeting is in flight, after the second disconnect.
C29_Witness ==
  /\ agent.pc = "done" /\ agent.greetings # {}
  /\ agent.disconnects = 2 /\ agent.greeted_for = 2
  /\ agent.tasks >= 4
\* C30 (the status update never outlives the tool call): when
\* search_document_corpus has ended, by a result, by the service-unavailable
\* message, by re-raising or by being cancelled, its status task is done, and
\* no status reply is generated afterwards.
C30_StatusEndsWithTool ==
  /\ [](tool.result \in Finished => tool.status = "done")
  /\ [][tool.result \in Finished => tool'.replies = tool.replies]_vars
====
